---- MODULE Spec2Model ----
(***************************************************************************)
(* Model of the simulation adapter (src/simulation_adapter.py) and of the  *)
(* batch it runs (src/mm_final_energy_sim.py).                             *)
(*                                                                         *)
(* Strings whose characters the code inspects (object keys, file names,    *)
(* scenario and aging tokens) are tuples of one-character strings.         *)
(***************************************************************************)
EXTENDS Integers, Sequences, FiniteSets, TLC

(***************************************************************************)
(* Characters and string helpers                                           *)
(***************************************************************************)

\* the characters that occur in the modelled keys, in code-point order
Alphabet ==
  <<" ",".","/","0","1","2","3","4","5","6","7","8","9",
    "A","B","C","D","E","F","G","H","I","J","K","L","M","N","O","P","Q","R",
    "S","T","U","V","W","X","Y","Z","_",
    "a","b","c","d","e","f","g","h","i","j","k","l","m","n","o","p","q","r",
    "s","t","u","v","w","x","y","z">>

UpperLetters ==
  <<"A","B","C","D","E","F","G","H","I","J","K","L","M","N","O","P","Q","R",
    "S","T","U","V","W","X","Y","Z">>

LowerLetters ==
  <<"a","b","c","d","e","f","g","h","i","j","k","l","m","n","o","p","q","r",
    "s","t","u","v","w","x","y","z">>

Digits == <<"0","1","2","3","4","5","6","7","8","9">>

\* position of character c in sequence s (0 when absent)
IndexOf(c, s) ==
  IF \E k \in 1..Len(s) : s[k] = c
    THEN CHOOSE k \in 1..Len(s) : s[k] = c
    ELSE 0

\* code-point order of a character
Ord(c) == IndexOf(c, Alphabet)

UpperChar(c) ==
  IF IndexOf(c, LowerLetters) > 0 THEN UpperLetters[IndexOf(c, LowerLetters)] ELSE c

LowerChar(c) ==
  IF IndexOf(c, UpperLetters) > 0 THEN LowerLetters[IndexOf(c, UpperLetters)] ELSE c

\* str.upper() and str.lower()
Upper(s) == [k \in 1..Len(s) |-> UpperChar(s[k])]

Lower(s) == [k \in 1..Len(s) |-> LowerChar(s[k])]

IsDigit(c) == IndexOf(c, Digits) > 0

DigitVal(c) == IndexOf(c, Digits) - 1

\* int() of a string of decimal digits
RECURSIVE ToInt(_)
ToInt(s) ==
  IF Len(s) = 0 THEN 0
  ELSE 10 * ToInt(SubSeq(s, 1, Len(s) - 1)) + DigitVal(s[Len(s)])

\* s[a:b] with 1-based inclusive bounds
Slice(s, a, b) == SubSeq(s, a, b)

StartsWith(s, p) == Len(s) >= Len(p) /\ SubSeq(s, 1, Len(p)) = p

\* str.endswith
EndsWith(s, p) == Len(s) >= Len(p) /\ SubSeq(s, Len(s) - Len(p) + 1, Len(s)) = p

\* str.replace(pat, rep): non-overlapping occurrences, left to right
RECURSIVE Replace(_, _, _)
Replace(s, pat, rep) ==
  IF Len(s) < Len(pat) THEN s
  ELSE IF StartsWith(s, pat)
    THEN rep \o Replace(SubSeq(s, Len(pat) + 1, Len(s)), pat, rep)
    ELSE <<s[1]>> \o Replace(Tail(s), pat, rep)

\* str.strip(): drops leading and trailing blanks
RECURSIVE Strip(_)
Strip(s) ==
  IF Len(s) = 0 THEN s
  ELSE IF s[1] = " " THEN Strip(Tail(s))
  ELSE IF s[Len(s)] = " " THEN Strip(SubSeq(s, 1, Len(s) - 1))
  ELSE s

\* key.rsplit("/", 1)[-1]: the part after the last slash
RECURSIVE LastSegment(_)
LastSegment(key) ==
  IF \E k \in 1..Len(key) : key[k] = "/"
    THEN LastSegment(Tail(key))
    ELSE key

\* Python's string comparison a < b
RECURSIVE StrLess(_, _)
StrLess(a, b) ==
  IF Len(b) = 0 THEN FALSE
  ELSE IF Len(a) = 0 THEN TRUE
  ELSE IF a[1] = b[1] THEN StrLess(Tail(a), Tail(b))
  ELSE Ord(a[1]) < Ord(b[1])

\* sorted(keys): ascending sequence of a set of distinct keys
RECURSIVE SortKeys(_)
SortKeys(S) ==
  IF S = {} THEN <<>>
  ELSE LET m == CHOOSE x \in S : \A y \in S \ {x} : StrLess(x, y)
       IN <<m>> \o SortKeys(S \ {m})

(***************************************************************************)
(* Constants of mm_final_energy_sim.py                                     *)
(***************************************************************************)

YEARS_START == 2025

YEARS_END == 2084

TOTAL_XLSX_KEY == "results_total_site_energy.xlsx"

PERAREA_XLSX_KEY == "results_site_energy_per_area.xlsx"

MatrixKeys == {TOTAL_XLSX_KEY, PERAREA_XLSX_KEY}

\* the configured prefixes of the two kinds of artifacts
S3_IDF_PREFIX == <<"i","/">>

S3_EPW_PREFIX == <<"w","/">>

(***************************************************************************)
(* File-name patterns                                                      *)
(***************************************************************************)

\* (20[2-7]\d|208[0-4])
MatchYear(y) ==
  /\ Len(y) = 4
  /\ \/ /\ y[1] = "2" /\ y[2] = "0"
        /\ y[3] \in {"2","3","4","5","6","7"}
        /\ IsDigit(y[4])
     \/ /\ y[1] = "2" /\ y[2] = "0" /\ y[3] = "8"
        /\ y[4] \in {"0","1","2","3","4"}

\* (?:[12]?\d|2[0-8])
MatchAgingNumber(d) ==
  \/ Len(d) = 1 /\ IsDigit(d[1])
  \/ Len(d) = 2 /\ d[1] \in {"1","2"} /\ IsDigit(d[2])
  \/ Len(d) = 2 /\ d[1] = "2" /\ d[2] \in {"0","1","2","3","4","5","6","7","8"}

\* IDF_NAME_RE.match(name), case-insensitive; d is the number of aging digits
IdfMatchWith(name, d) ==
  /\ Len(name) = 17 + d
  /\ Upper(Slice(name, 1, 3)) = <<"R","C","P">>
  /\ Slice(name, 4, 6) \in {<<"8",".","5">>, <<"4",".","5">>, <<"2",".","6">>}
  /\ name[7] = "_"
  /\ UpperChar(name[8]) \in {"E","F","T"}
  /\ MatchAgingNumber(Slice(name, 9, 8 + d))
  /\ name[9 + d] = "_"
  /\ MatchYear(Slice(name, 10 + d, 13 + d))
  /\ Lower(Slice(name, 14 + d, 17 + d)) = <<".","i","d","f">>

IDF_NAME_RE(name) == IdfMatchWith(name, 1) \/ IdfMatchWith(name, 2)

\* parse_idf_filename: [ok, rcp_dot, aging, year]; ok = FALSE is the ValueError
parse_idf_filename(name) ==
  IF ~IDF_NAME_RE(name)
    THEN [ok |-> FALSE, rcp_dot |-> <<>>, aging |-> <<>>, year |-> 0]
    ELSE LET d == Len(name) - 17
         IN [ok |-> TRUE,
             rcp_dot |-> Upper(Slice(name, 1, 6)),
             aging |-> Upper(Slice(name, 8, 8 + d)),
             year |-> ToInt(Slice(name, 10 + d, 13 + d))]

\* EPW_NAME_RE.match(name), case-insensitive
EPW_NAME_RE(name) ==
  /\ Len(name) = 24
  /\ Upper(Slice(name, 1, 10)) = <<"R","O","T","T","E","R","D","A","M","_">>
  /\ Upper(Slice(name, 11, 13)) = <<"R","C","P">>
  /\ Slice(name, 14, 15) \in {<<"8","5">>, <<"4","5">>, <<"2","6">>}
  /\ name[16] = "_"
  /\ MatchYear(Slice(name, 17, 20))
  /\ Lower(Slice(name, 21, 24)) = <<".","e","p","w">>

\* map_rcp_dot_to_nodot
map_rcp_dot_to_nodot(rcp) ==
  LET u == Replace(Upper(rcp), <<" ">>, <<>>)
  IN Replace(Replace(Replace(u, <<"8",".","5">>, <<"8","5">>),
                     <<"4",".","5">>, <<"4","5">>),
             <<"2",".","6">>, <<"2","6">>)

\* index_epws_s3: the (scenario, year) pairs of the weather keys under the
\* prefix, mapped to a key; of several keys for one pair the last listed wins
EpwPairOf(key) ==
  LET name == LastSegment(key)
  IN <<Upper(Slice(name, 11, 15)), ToInt(Slice(name, 17, 20))>>

index_epws_s3(objects, epw_prefix) ==
  LET listed == SortKeys({k \in objects : StartsWith(k, epw_prefix)})
      good == {n \in 1..Len(listed) : EPW_NAME_RE(LastSegment(listed[n]))}
      pairs == {EpwPairOf(listed[n]) : n \in good}
  IN [p \in pairs |->
        LET last == CHOOSE n \in good :
                      /\ EpwPairOf(listed[n]) = p
                      /\ \A m \in good : EpwPairOf(listed[m]) = p => m <= n
        IN listed[last]]

\* the listing of line 273: keys under the prefix that end in .idf
ListIdfObjs(objects, idf_prefix) ==
  {k \in objects : StartsWith(k, idf_prefix) /\ EndsWith(Lower(k), <<".","i","d","f">>)}

(***************************************************************************)
(* Optional values: Python's None is the empty tuple, a value v is <<v>>   *)
(***************************************************************************)

Absent == <<>>

Some(v) == <<v>>

(***************************************************************************)
(* Metric extraction                                                       *)
(*                                                                         *)
(* A file of the output directory is described by what its strategy reads  *)
(* from it: Missing (no such file), Corrupt (reading it raises), or        *)
(* Data(t, p), the optional values the strategy returns.                   *)
(***************************************************************************)

Missing == [kind |-> "missing"]

Corrupt == [kind |-> "corrupt"]

Data(t, p) == [kind |-> "data", t |-> t, p |-> p]

NoPair == [t |-> Absent, p |-> Absent]

\* fetch_from_sql: (None, None) when the file does not exist
fetch_from_sql(file) ==
  IF file.kind = "data" THEN [t |-> file.t, p |-> file.p] ELSE NoPair

\* _fetch_from_tabular_text: (None, None) when the file does not exist
fetch_from_tabular_text(file) ==
  IF file.kind = "data" THEN [t |-> file.t, p |-> file.p] ELSE NoPair

\* fetch_metrics_any: [raises, t, p, src]; raises = TRUE when the query on
\* an existing structured file fails (sqlite3.Error propagates)
fetch_metrics_any(outdir) ==
  IF outdir.sql.kind = "corrupt"
    THEN [raises |-> TRUE, t |-> Absent, p |-> Absent, src |-> "none"]
  ELSE
  LET s == IF outdir.sql.kind # "missing" THEN fetch_from_sql(outdir.sql) ELSE NoPair
      b == fetch_from_tabular_text(outdir.tab)
      c == fetch_from_tabular_text(outdir.csv)
  IN IF s.t # Absent \/ s.p # Absent
       THEN [raises |-> FALSE, t |-> s.t, p |-> s.p, src |-> "sql"]
     ELSE IF b.t # Absent \/ b.p # Absent
       THEN [raises |-> FALSE, t |-> b.t, p |-> b.p, src |-> "tab"]
     ELSE IF c.t # Absent \/ c.p # Absent
       THEN [raises |-> FALSE, t |-> c.t, p |-> c.p, src |-> "csv"]
     ELSE [raises |-> FALSE, t |-> Absent, p |-> Absent, src |-> "none"]

(***************************************************************************)
(* Result matrices                                                         *)
(*                                                                         *)
(* A worksheet is a function from <<row, column>> to the cell's value; a   *)
(* cell outside its domain is empty.  A stored matrix object is the        *)
(* worksheet that was saved into it; NoObject is a key with no object.     *)
(***************************************************************************)

NoObject == [exists |-> FALSE]

StoredObject(ws) == [exists |-> TRUE, ws |-> ws]

LastYearRow == 3 + (YEARS_END - YEARS_START)

\* _init_workbook: column A holds "Year", "", and one row per year
init_workbook ==
  [c \in {<<row, 1>> : row \in 1..LastYearRow} |->
     IF c[1] = 1 THEN <<"Y","e","a","r">>
     ELSE IF c[1] = 2 THEN <<>>
     ELSE YEARS_START + (c[1] - 3)]

\* _download_workbook_or_create, given the object found under the key
download_workbook_or_create(obj) ==
  IF obj.exists THEN obj.ws ELSE init_workbook

\* ws.max_column or 1
MaxColumn(ws) ==
  IF DOMAIN ws = {} THEN 1
  ELSE LET cols == {c[2] : c \in DOMAIN ws}
       IN CHOOSE m \in cols : \A n \in cols : n <= m

\* (ws.cell(row, column).value or "").strip() of a header cell
HeaderText(ws, row, col) ==
  IF <<row, col>> \in DOMAIN ws THEN Strip(ws[<<row, col>>]) ELSE <<>>

\* ws.cell(row, column, value)
SetCell(ws, row, col, value) ==
  [c \in DOMAIN ws \cup {<<row, col>>} |->
     IF c = <<row, col>> THEN value ELSE ws[c]]

\* _col_for_pair without the scan of the existing headers
col_for_pair_AlwaysAppends(ws, climate, aging) ==
  LET max_col == MaxColumn(ws)
      col == IF max_col >= 2 THEN max_col + 1 ELSE 2
  IN [col |-> col, ws |-> SetCell(SetCell(ws, 1, col, climate), 2, col, aging)]

\* _col_for_pair: [col, ws], ws being the sheet after the call
col_for_pair(ws, climate, aging) ==
  LET max_col == MaxColumn(ws)
      hits == {col \in 2..max_col :
                 /\ HeaderText(ws, 1, col) = climate
                 /\ HeaderText(ws, 2, col) = aging}
  IN IF hits # {}
       THEN [col |-> CHOOSE col \in hits : \A o \in hits : col <= o, ws |-> ws]
       ELSE LET col == IF max_col >= 2 THEN max_col + 1 ELSE 2
            IN [col |-> col,
                ws |-> SetCell(SetCell(ws, 1, col, climate), 2, col, aging)]

\* _row_for_year with the test of the upper end of the range only
row_for_year_UpperEndOnly(year) ==
  IF year > YEARS_END
    THEN [ok |-> FALSE, row |-> 0]
    ELSE [ok |-> TRUE, row |-> 3 + (year - YEARS_START)]

\* _row_for_year: ok = FALSE is the ValueError
row_for_year(year) ==
  IF year < YEARS_START \/ year > YEARS_END
    THEN [ok |-> FALSE, row |-> 0]
    ELSE [ok |-> TRUE, row |-> 3 + (year - YEARS_START)]

\* lines 259-263 of write_result_to_s3: the sheet to upload, or ok = FALSE
\* when _row_for_year raises; a cell given None stays empty
ModifiedSheet(obj, climate, aging, year, value) ==
  LET ws == download_workbook_or_create(obj)
      cp == col_for_pair(ws, climate, aging)
      ry == row_for_year(year)
  IN IF ~ry.ok THEN [ok |-> FALSE, ws |-> cp.ws]
     ELSE IF value = Absent THEN [ok |-> TRUE, ws |-> cp.ws]
     ELSE [ok |-> TRUE, ws |-> SetCell(cp.ws, ry.row, cp.col, value[1])]

\* write_result_to_s3 without the test of line 257
WriteReturnsEarly_Never(value) == FALSE

\* line 257 of write_result_to_s3: if value is None: return
WriteReturnsEarly(value) == value = Absent

(***************************************************************************)
(* Bounds and input pools                                                  *)
(***************************************************************************)

\* ids that create_run can hand out
RunIds == {"run-1", "run-2"}

\* most simulation artifacts in the bucket
MaxArtifacts == 2

\* keys of simulation artifacts: two that parse and have weather in the
\* pool, a name that does not parse, and one whose year parses but lies
\* before YEARS_START
IdfGoodA == <<"i","/","R","C","P","8",".","5","_","E","1","2","_","2","0","3","0",".","i","d","f">>

IdfGoodB == <<"i","/","R","C","P","4",".","5","_","F","3","_","2","0","8","4",".","i","d","f">>

IdfBogus == <<"i","/","b","o","g","u","s",".","i","d","f">>

IdfEarly == <<"i","/","r","c","p","8",".","5","_","e","1","2","_","2","0","2","2",".","i","d","f">>

\* a name with aging number 29 and a year before YEARS_START, whose header
\* pair no other artifact has
IdfOdd == <<"i","/","r","c","p","4",".","5","_","t","2","9","_","2","0","2","1",".","i","d","f">>

\* keys of weather artifacts, and a key the weather pattern rejects
EpwA == <<"w","/","R","o","t","t","e","r","d","a","m","_","R","C","P","8","5","_","2","0","3","0",".","e","p","w">>

EpwB == <<"w","/","R","o","t","t","e","r","d","a","m","_","R","C","P","4","5","_","2","0","8","4",".","e","p","w">>

EpwEarly == <<"w","/","r","o","t","t","e","r","d","a","m","_","r","c","p","8","5","_","2","0","2","2",".","e","p","w">>

EpwOdd == <<"w","/","r","o","t","t","e","r","d","a","m","_","r","c","p","4","5","_","2","0","2","1",".","e","p","w">>

EpwOther == <<"w","/","r","e","a","d","m","e",".","t","x","t">>

NumArtifacts(B) == Cardinality({k \in B : StartsWith(k, S3_IDF_PREFIX)})

\* bucket contents for the runs the adapter starts: no weather index, no
\* artifact, and artifacts of which at most one can be written
AdapterBucketPool ==
  { {EpwA},
    {IdfGoodA, EpwOther},
    {IdfGoodA, IdfBogus, EpwA, EpwOther},
    {IdfEarly, IdfGoodB, EpwEarly, EpwA},
    {IdfBogus, IdfGoodA, IdfGoodB, EpwA} }

AdapterBuckets == {B \in AdapterBucketPool : NumArtifacts(B) <= MaxArtifacts}

\* bucket contents for batches started from main(): as above, and two
\* artifacts that are both written
BatchBucketPool ==
  { {EpwA},
    {IdfGoodA, EpwOther},
    {IdfGoodA, IdfBogus, EpwA, EpwOther},
    {IdfGoodA, IdfGoodB, EpwA, EpwB},
    {IdfEarly, IdfGoodA, EpwEarly, EpwA},
    {IdfGoodA, IdfGoodB, EpwA},
    {IdfGoodA, IdfOdd, EpwA, EpwOdd},
    {IdfBogus, IdfGoodB, EpwA},
    {IdfBogus, IdfGoodA, IdfGoodB, EpwA, EpwB} }

BatchBuckets == {B \in BatchBucketPool : NumArtifacts(B) <= MaxArtifacts}

\* the values an engine run reports
TotalValue == 125000

PerAreaValue == 42

\* output directories an engine run may leave behind
OutDirs ==
  { [sql |-> Missing, tab |-> Missing, csv |-> Missing],
    [sql |-> Data(Some(TotalValue), Some(PerAreaValue)), tab |-> Missing, csv |-> Missing],
    [sql |-> Data(Some(TotalValue), Absent), tab |-> Missing, csv |-> Missing],
    [sql |-> Data(Absent, Absent), tab |-> Missing, csv |-> Data(Absent, Some(PerAreaValue))],
    [sql |-> Missing, tab |-> Data(Some(TotalValue), Some(PerAreaValue)), csv |-> Missing],
    [sql |-> Corrupt, tab |-> Missing, csv |-> Data(Some(TotalValue), Some(PerAreaValue))],
    [sql |-> Missing, tab |-> Missing, csv |-> Data(Some(TotalValue), Some(PerAreaValue))],
    [sql |-> Data(Some(TotalValue), Some(PerAreaValue)),
     tab |-> Data(Some(TotalValue), Absent),
     csv |-> Data(Absent, Some(PerAreaValue))] }

\* request bodies of the initialise call
Configs == {"{}", "{mode: fast}"}

\* how a storage call ends
StorageOutcomes == {"ok", "ClientError"}

\* how the engine process ends
EngineOutcomes == {"exit0", "nonzero", "timeout"}

(***************************************************************************)
(* Run records and the process environment                                 *)
(***************************************************************************)

PENDING == "PENDING"

INITIALISED == "INITIALISED"

RUNNING == "RUNNING"

SUCCEEDED == "SUCCEEDED"

ERROR == "ERROR"

\* the record create_run stores
NewRun ==
  [state |-> PENDING, config |-> "{}", thread |-> Absent,
   result |-> Absent, error |-> Absent]

EnvKeys == {"RUN_ID", "LOG_LEVEL"}

Unset == "<unset>"

\* the environment the process was started with
StartEnviron == [k \in EnvKeys |-> IF k = "LOG_LEVEL" THEN "INFO" ELSE Unset]

\* os.environ.clear()
EmptyEnviron == [k \in EnvKeys |-> Unset]

\* dict.update
DictUpdate(d, e) == [k \in EnvKeys |-> IF e[k] # Unset THEN e[k] ELSE d[k]]

(***************************************************************************)
(* Exceptions                                                              *)
(***************************************************************************)

\* the classes below derive from Exception; SystemExit derives from
\* BaseException only
ExceptionClasses ==
  {"ValueError", "RuntimeError", "TimeoutExpired", "ClientError", "DatabaseError"}

\* isinstance(e, Exception)
IsException(cls) == cls \in ExceptionClasses

\* a handler of the artifact loop that lists the errors of the engine and
\* of the storage, and misses the timeout of subprocess.run
LoopCatches_NotTimeout(cls) == IsException(cls) /\ cls # "TimeoutExpired"

\* the handler of the artifact loop: except Exception
LoopCatches(cls) == IsException(cls)

\* the handler of _exec_run: except Exception
ExecRunCatches(cls) == IsException(cls)

NoOutcome == [kind |-> "none"]

Return(v) == [kind |-> "return", value |-> v]

Raise(cls, msg) == [kind |-> "raise", cls |-> cls, msg |-> msg]

(***************************************************************************)
(* State                                                                   *)
(***************************************************************************)

VARIABLES
  runs,          \* self._runs: run id -> record
  issued,        \* the ids uuid4 has produced
  launched,      \* per id, the number of threads start_run has started
  environ,       \* os.environ
  th,            \* per id, the background thread and its local variables
  objects,       \* keys of the input objects in the bucket
  store,         \* the object stored under each matrix key
  scratch,       \* scratch directories on disk
  KEEP_OUTPUTS,  \* the retention flag
  lock,          \* self._lock: Absent when free, Some(holder) when held
  calls          \* per id, the request to run_model that is being handled

vars == <<runs, issued, launched, environ, th, objects, store, scratch, KEEP_OUTPUTS, lock, calls>>

\* all but the requests in progress; start_run and remove_run leave calls
\* to the handler that calls them
adapter_vars ==
  <<runs, issued, launched, environ, th, objects, store, scratch, KEEP_OUTPUTS, lock>>

NoDir == <<>>

\* no request to run_model is being handled
NoCall == [pc |-> "idle", launching |-> FALSE, record |-> Absent]

\* a thread that was never started
NoThread ==
  [pc |-> "none", caller |-> "none",
   env |-> EmptyEnviron, original |-> EmptyEnviron,
   epw_index |-> <<>>, idf_objs |-> <<>>, i |-> 0,
   successes |-> 0, failures |-> 0, processed |-> <<>>,
   run_dir |-> NoDir, rcp_nodot |-> <<>>, aging |-> <<>>, year |-> 0,
   total_site |-> Absent, per_area |-> Absent, wb |-> <<>>,
   outcome |-> NoOutcome]

Init ==
  /\ runs = [id \in {} |-> NewRun]
  /\ issued = {}
  /\ launched = [r \in RunIds |-> 0]
  /\ environ = StartEnviron
  /\ th = [r \in RunIds |-> NoThread]
  /\ objects \in AdapterBuckets
  /\ store = [k \in MatrixKeys |-> NoObject]
  /\ scratch = {}
  /\ KEEP_OUTPUTS \in BOOLEAN
  /\ lock = Absent
  /\ calls = [r \in RunIds |-> NoCall]

(***************************************************************************)
(* SimulationModelAdapter: each method body runs under self._lock.  A      *)
(* with block is one step: it is entered when the lock is free and the     *)
(* lock is free again when it is left.                                     *)
(***************************************************************************)

\* with self._lock: the block is entered only when no one holds the lock
LockFree == lock = Absent

\* create_run: uuid4 yields an id that was never produced before
create_run(id) ==
  /\ LockFree
  /\ id \notin issued
  /\ issued' = issued \cup {id}
  /\ runs' = [x \in DOMAIN runs \cup {id} |-> IF x = id THEN NewRun ELSE runs[x]]
  /\ UNCHANGED <<launched, environ, th, objects, store, scratch, KEEP_OUTPUTS, lock, calls>>

\* initialise_run without the test of line 117
InitialisedState_Always(state) == INITIALISED

\* the state initialise_run leaves a record in
InitialisedState(state) ==
  IF state \in {PENDING, INITIALISED} THEN INITIALISED ELSE state

\* an initialise_run that stores the supplied config in the record
initialise_run_StoresConfig(id, config) ==
  /\ LockFree
  /\ runs' = IF id \in DOMAIN runs
               THEN [runs EXCEPT ![id].state = InitialisedState(@),
                                 ![id].config = config]
               ELSE runs
  /\ UNCHANGED <<issued, launched, environ, th, objects, store, scratch, KEEP_OUTPUTS, lock, calls>>

\* initialise_run: KeyError (nothing changes) for an unknown id
initialise_run(id, config) ==
  /\ LockFree
  /\ runs' = IF id \in DOMAIN runs
               THEN [runs EXCEPT ![id].state = InitialisedState(@)]
               ELSE runs
  /\ UNCHANGED <<issued, launched, environ, th, objects, store, scratch, KEEP_OUTPUTS, lock, calls>>

\* line 126 testing for RUNNING only
StartReturnsEarly_RunningOnly(state) == state = RUNNING

\* line 126 testing for the terminal states only
StartReturnsEarly_TerminalOnly(state) == state \in {SUCCEEDED, ERROR}

\* the test of line 126: start_run returns the record as it is
StartReturnsEarly(state) == state \in {RUNNING, SUCCEEDED, ERROR}

\* the thread object of line 130, before it runs
NewThread(env) ==
  [NoThread EXCEPT !.pc = "copy_env", !.caller = "_exec_run", !.env = env]

\* a start_run that runs the batch before it leaves its with block: the
\* lock stays with the run
LockAfterStart_KeptByRun(id) == Some(id)

\* the lock after start_run has started the thread: t.start() returns at
\* once and the with block of lines 122-132 is left
LockAfterStart(id) == Absent

\* start_run: KeyError (nothing changes) for an unknown id
start_run(id) ==
  /\ LockFree
  /\ IF id \notin DOMAIN runs \/ StartReturnsEarly(runs[id].state)
       THEN UNCHANGED <<runs, launched, th, lock>>
       ELSE /\ runs' = [runs EXCEPT ![id].state = RUNNING,
                                    ![id].thread = Some("Thread")]
            /\ th' = [th EXCEPT ![id] = NewThread([environ EXCEPT !["RUN_ID"] = id])]
            /\ launched' = [launched EXCEPT ![id] = @ + 1]
            /\ lock' = LockAfterStart(id)
  /\ UNCHANGED <<issued, environ, objects, store, scratch, KEEP_OUTPUTS>>

\* get_run: returns the record, or KeyError; changes nothing
get_run(id) ==
  /\ LockFree
  /\ UNCHANGED vars

\* remove_run: pop(run_id, None)
remove_run(id) ==
  /\ LockFree
  /\ runs' = [x \in DOMAIN runs \ {id} |-> runs[x]]
  /\ UNCHANGED <<issued, launched, environ, th, objects, store, scratch, KEEP_OUTPUTS, lock>>

(***************************************************************************)
(* The HTTP handlers of the two queries: the response to a request made    *)
(* in the current state                                                    *)
(***************************************************************************)

\* jsonify(body), code
Response(code, body) == [code |-> code, body |-> body]

\* except KeyError: 404
NotFound(id) == Response(404, [error |-> "does not exist", run_id |-> id])

\* GET /model/status/<run_id>: no code is given for a known run
status(id) ==
  IF id \notin DOMAIN runs THEN NotFound(id)
  ELSE Response(200, [run_id |-> id, state |-> runs[id].state,
                      error |-> runs[id].error])

\* GET /model/results/<run_id>
results(id) ==
  IF id \notin DOMAIN runs THEN NotFound(id)
  ELSE IF runs[id].state = SUCCEEDED
    THEN Response(200, [run_id |-> id, result |-> runs[id].result])
  ELSE IF runs[id].state = ERROR
    THEN Response(400, [run_id |-> id, error |-> runs[id].error])
  ELSE Response(202, [run_id |-> id, state |-> runs[id].state])

\* POST /model/run/<run_id>, line 205: the handler calls start_run and holds
\* the record it returned; KeyError is answered with 404 at once
run_model(id) ==
  /\ calls[id].pc = "idle"
  /\ start_run(id)
  /\ calls' = [calls EXCEPT ![id] =
                 IF id \notin DOMAIN runs THEN NoCall
                 ELSE [pc |-> "read",
                       launching |-> ~StartReturnsEarly(runs[id].state),
                       record |-> Absent]]

\* the dictionary start_run returned to the handler: the record of the
\* collection, or the record as it was when it was removed
ReturnedRecord(id) ==
  IF calls[id].record # Absent THEN calls[id].record[1] ELSE runs[id]

\* lines 206-207: the handler reads the record and answers
run_model_response(id) ==
  LET run == ReturnedRecord(id)
  IN Response(IF run.state = ERROR THEN 400 ELSE 200,
              [run_id |-> id, state |-> run.state, error |-> run.error])

\* the response of run_model is sent
RunModelRespond(id) ==
  /\ calls[id].pc = "read"
  /\ calls' = [calls EXCEPT ![id] = NoCall]
  /\ UNCHANGED adapter_vars

\* POST /model/remove/<run_id>: a handler of run_model that holds the
\* record keeps the dictionary that left the collection
remove(id) ==
  /\ remove_run(id)
  /\ calls' = [calls EXCEPT ![id] =
                 IF @.pc = "read" /\ @.record = Absent /\ id \in DOMAIN runs
                   THEN [@ EXCEPT !.record = Some(runs[id])]
                   ELSE @]

(***************************************************************************)
(* _exec_run: the background thread of one run                             *)
(***************************************************************************)

\* original = os.environ.copy()
CopyEnv(r) ==
  /\ th[r].pc = "copy_env"
  /\ th' = [th EXCEPT ![r].original = environ, ![r].pc = "update_env"]
  /\ UNCHANGED <<runs, issued, launched, environ, objects, store, scratch, KEEP_OUTPUTS, lock, calls>>

\* os.environ.update(env)
UpdateEnv(r) ==
  /\ th[r].pc = "update_env"
  /\ environ' = DictUpdate(environ, th[r].env)
  /\ th' = [th EXCEPT ![r].pc = "setup"]
  /\ UNCHANGED <<runs, issued, launched, objects, store, scratch, KEEP_OUTPUTS, lock, calls>>

\* finally: os.environ.clear()
ClearEnv(r) ==
  /\ th[r].pc = "returned"
  /\ th[r].caller = "_exec_run"
  /\ environ' = EmptyEnviron
  /\ th' = [th EXCEPT ![r].pc = "restore_env"]
  /\ UNCHANGED <<runs, issued, launched, objects, store, scratch, KEEP_OUTPUTS, lock, calls>>

\* finally: os.environ.update(original)
RestoreEnv(r) ==
  /\ th[r].pc = "restore_env"
  /\ environ' = DictUpdate(environ, th[r].original)
  /\ th' = [th EXCEPT ![r].pc = "finish"]
  /\ UNCHANGED <<runs, issued, launched, objects, store, scratch, KEEP_OUTPUTS, lock, calls>>

\* an end of _exec_run that stores the record again when it was removed
Finish_Resurrects(r) ==
  /\ th[r].pc = "finish"
  /\ LET o == th[r].outcome
         stored(rec) == [x \in DOMAIN runs \cup {r} |-> IF x = r THEN rec ELSE runs[x]]
         old == IF r \in DOMAIN runs THEN runs[r] ELSE NewRun
     IN IF o.kind = "return"
          THEN /\ LockFree
               /\ runs' = stored([old EXCEPT !.state = SUCCEEDED,
                                             !.result = Some(o.value)])
               /\ th' = [th EXCEPT ![r].pc = "done"]
        ELSE IF ExecRunCatches(o.cls)
          THEN /\ LockFree
               /\ runs' = stored([old EXCEPT !.state = ERROR,
                                             !.error = Some(o.msg)])
               /\ th' = [th EXCEPT ![r].pc = "done"]
        ELSE /\ runs' = runs
             /\ th' = [th EXCEPT ![r].pc = "dead"]
  /\ UNCHANGED <<issued, launched, environ, objects, store, scratch, KEEP_OUTPUTS, lock, calls>>

\* lines 147-157: record the end of the run under the lock, if the record
\* still exists; an exception the handler does not catch ends the thread
Finish(r) ==
  /\ th[r].pc = "finish"
  /\ LET o == th[r].outcome
     IN IF o.kind = "return"
          THEN /\ LockFree
               /\ runs' = IF r \in DOMAIN runs
                            THEN [runs EXCEPT ![r].state = SUCCEEDED,
                                              ![r].result = Some(o.value)]
                            ELSE runs
               /\ th' = [th EXCEPT ![r].pc = "done"]
        ELSE IF ExecRunCatches(o.cls)
          THEN /\ LockFree
               /\ runs' = IF r \in DOMAIN runs
                            THEN [runs EXCEPT ![r].state = ERROR,
                                              ![r].error = Some(o.msg)]
                            ELSE runs
               /\ th' = [th EXCEPT ![r].pc = "done"]
        ELSE /\ runs' = runs
             /\ th' = [th EXCEPT ![r].pc = "dead"]
  /\ UNCHANGED <<issued, launched, environ, objects, store, scratch, KEEP_OUTPUTS, lock, calls>>

(***************************************************************************)
(* run_energy_simulation_from_env: the batch, run by the thread            *)
(***************************************************************************)

\* the dictionary the batch returns
Summary(t) ==
  [bucket |-> "mmstore",
   results_total_key |-> TOTAL_XLSX_KEY,
   results_per_area_key |-> PERAREA_XLSX_KEY,
   processed |-> SubSeq(t.processed, 1,
                        IF Len(t.processed) < 10 THEN Len(t.processed) ELSE 10),
   counts |-> [success |-> t.successes, failed |-> t.failures,
               total |-> Len(t.idf_objs)]]

\* failures += 1 (lines 290 and 315)
CountFailure(t) == [t EXCEPT !.failures = @ + 1]

\* successes += 1; processed.append(idf_key)
CountSuccess(t) ==
  [t EXCEPT !.successes = @ + 1, !.processed = Append(@, t.idf_objs[t.i])]

\* the loop moves to the next artifact; the locals of the finished
\* iteration are dead
NextArtifact(t) ==
  [t EXCEPT !.i = @ + 1, !.pc = "loop", !.run_dir = NoDir,
            !.rcp_nodot = <<>>, !.aging = <<>>, !.year = 0,
            !.total_site = Absent, !.per_area = Absent, !.wb = <<>>]

\* an exception leaves run_energy_simulation_from_env
BatchRaises(t, cls, msg) ==
  [t EXCEPT !.pc = "returned", !.outcome = Raise(cls, msg), !.run_dir = NoDir,
            !.rcp_nodot = <<>>, !.aging = <<>>, !.year = 0,
            !.total_site = Absent, !.per_area = Absent, !.wb = <<>>]

\* an except block that forgets failures += 1
ArtifactRaises_NoCount(t, cls, msg) == NextArtifact(t)

\* an exception is raised inside the try block of the loop
ArtifactRaises(t, cls, msg) ==
  IF LoopCatches(cls)
    THEN NextArtifact(CountFailure(t))
    ELSE BatchRaises(t, cls, msg)

\* a finally block that removes nothing
Release_Never(dir) == scratch

\* finally: shutil.rmtree(run_dir) unless outputs are kept
Release(dir) ==
  IF dir # NoDir /\ ~KEEP_OUTPUTS THEN scratch \ {dir} ELSE scratch

\* lines 268-275: build the weather index and list the artifacts
BatchSetup(r) ==
  /\ th[r].pc = "setup"
  /\ \E listing \in StorageOutcomes :
       LET t == th[r]
           epw_index == index_epws_s3(objects, S3_EPW_PREFIX)
           idf_objs == ListIdfObjs(objects, S3_IDF_PREFIX)
       IN th' = [th EXCEPT ![r] =
            IF listing # "ok" THEN BatchRaises(t, "ClientError", "listing failed")
            ELSE IF DOMAIN epw_index = {} THEN BatchRaises(t, "SystemExit", "No EPWs")
            ELSE IF idf_objs = {} THEN BatchRaises(t, "SystemExit", "No IDFs")
            ELSE [t EXCEPT !.epw_index = epw_index,
                           !.idf_objs = SortKeys(idf_objs),
                           !.i = 1, !.pc = "loop"]]
  /\ UNCHANGED <<runs, issued, launched, environ, objects, store, scratch, KEEP_OUTPUTS, lock, calls>>

\* the head of the loop body without the lookup in the weather index
BeginArtifact_StagesUnmatched(r) ==
  /\ th[r].pc = "loop"
  /\ th[r].i <= Len(th[r].idf_objs)
  /\ LET t == th[r]
         name == LastSegment(t.idf_objs[t.i])
         parsed == parse_idf_filename(name)
         rcp_nodot == map_rcp_dot_to_nodot(parsed.rcp_dot)
         dir == <<r, t.i>>
     IN IF ~parsed.ok
          THEN /\ th' = [th EXCEPT ![r] = ArtifactRaises(t, "ValueError", "Unrecognized IDF filename")]
               /\ scratch' = scratch
        ELSE /\ th' = [th EXCEPT ![r] =
                         [t EXCEPT !.rcp_nodot = rcp_nodot, !.aging = parsed.aging,
                                   !.year = parsed.year, !.run_dir = dir,
                                   !.pc = "staged"]]
             /\ scratch' = scratch \cup {dir}
  /\ UNCHANGED <<runs, issued, launched, environ, objects, store, KEEP_OUTPUTS, lock, calls>>

\* lines 280-293: parse the name, look the weather up, make the scratch
\* directory
BeginArtifact(r) ==
  /\ th[r].pc = "loop"
  /\ th[r].i <= Len(th[r].idf_objs)
  /\ LET t == th[r]
         name == LastSegment(t.idf_objs[t.i])
         parsed == parse_idf_filename(name)
         rcp_nodot == map_rcp_dot_to_nodot(parsed.rcp_dot)
         dir == <<r, t.i>>
     IN IF ~parsed.ok
          THEN /\ th' = [th EXCEPT ![r] = ArtifactRaises(t, "ValueError", "Unrecognized IDF filename")]
               /\ scratch' = scratch
        ELSE IF <<rcp_nodot, parsed.year>> \notin DOMAIN t.epw_index
          THEN /\ th' = [th EXCEPT ![r] = NextArtifact(CountFailure(t))]
               /\ scratch' = scratch
        ELSE /\ th' = [th EXCEPT ![r] =
                         [t EXCEPT !.rcp_nodot = rcp_nodot, !.aging = parsed.aging,
                                   !.year = parsed.year, !.run_dir = dir,
                                   !.pc = "staged"]]
             /\ scratch' = scratch \cup {dir}
  /\ UNCHANGED <<runs, issued, launched, environ, objects, store, KEEP_OUTPUTS, lock, calls>>

\* lines 298-306: stage the two files, run the engine, extract the metrics
RunArtifact(r) ==
  /\ th[r].pc = "staged"
  /\ \E staging \in StorageOutcomes, engine \in EngineOutcomes, outdir \in OutDirs :
       LET t == th[r]
           m == fetch_metrics_any(outdir)
       IN /\ th' = [th EXCEPT ![r] =
                 IF staging # "ok" THEN ArtifactRaises(t, "ClientError", "download failed")
                 ELSE IF engine = "nonzero" THEN ArtifactRaises(t, "RuntimeError", "EnergyPlus failed")
                 ELSE IF engine = "timeout" THEN ArtifactRaises(t, "TimeoutExpired", "timed out")
                 ELSE IF m.raises THEN ArtifactRaises(t, "DatabaseError", "query failed")
                 ELSE IF m.t = Absent /\ m.p = Absent
                   THEN ArtifactRaises(t, "RuntimeError", "Failed to extract metrics")
                 ELSE [t EXCEPT !.total_site = m.t, !.per_area = m.p,
                                !.pc = "write_total"]]
          /\ scratch' = IF th'[r].pc = "write_total" THEN scratch ELSE Release(t.run_dir)
  /\ UNCHANGED <<runs, issued, launched, environ, objects, store, KEEP_OUTPUTS, lock, calls>>

\* the matrix key and the value of the write the thread is at
WriteKey(t) ==
  IF t.pc \in {"write_total", "put_total"} THEN TOTAL_XLSX_KEY ELSE PERAREA_XLSX_KEY

WriteValue(t) ==
  IF t.pc \in {"write_total", "put_total"} THEN t.total_site ELSE t.per_area

\* write_result_to_s3 returned: the second write follows the first, the
\* success tally follows the second
AfterWrite(t) ==
  IF t.pc \in {"write_total", "put_total"}
    THEN [t EXCEPT !.pc = "write_perarea", !.wb = <<>>]
    ELSE NextArtifact(CountSuccess(t))

\* write_result_to_s3 with value None: returns at once
WriteAbsent(r) ==
  /\ th[r].pc \in {"write_total", "write_perarea"}
  /\ WriteReturnsEarly(WriteValue(th[r]))
  /\ th' = [th EXCEPT ![r] = AfterWrite(th[r])]
  /\ scratch' = IF th'[r].pc = "loop" THEN Release(th[r].run_dir) ELSE scratch
  /\ UNCHANGED <<runs, issued, launched, environ, objects, store, KEEP_OUTPUTS, lock, calls>>

\* write_result_to_s3, lines 259-263: load or create the workbook, resolve
\* the column and the row, set the cell
WriteLoad(r) ==
  /\ th[r].pc \in {"write_total", "write_perarea"}
  /\ ~WriteReturnsEarly(WriteValue(th[r]))
  /\ \E loading \in StorageOutcomes :
       LET t == th[r]
           m == ModifiedSheet(store[WriteKey(t)], t.rcp_nodot, t.aging, t.year,
                              WriteValue(t))
       IN /\ th' = [th EXCEPT ![r] =
                 IF loading # "ok" THEN ArtifactRaises(t, "ClientError", "get failed")
                 ELSE IF ~m.ok THEN ArtifactRaises(t, "ValueError", "Year outside range")
                 ELSE [t EXCEPT !.wb = m.ws,
                                !.pc = IF t.pc = "write_total" THEN "put_total"
                                                               ELSE "put_perarea"]]
          /\ scratch' = IF th'[r].pc \in {"put_total", "put_perarea"}
                          THEN scratch ELSE Release(t.run_dir)
  /\ UNCHANGED <<runs, issued, launched, environ, objects, store, KEEP_OUTPUTS, lock, calls>>

\* the cells of the stored sheet, overlaid with those of the uploaded one
MergedInto(obj, wb) ==
  IF obj.exists
    THEN [c \in DOMAIN obj.ws \cup DOMAIN wb |->
            IF c \in DOMAIN wb THEN wb[c] ELSE obj.ws[c]]
    ELSE wb

\* an upload that merges into the stored object instead of replacing it
WritePut_Merges(r) ==
  /\ th[r].pc \in {"put_total", "put_perarea"}
  /\ \E upload \in StorageOutcomes :
       LET t == th[r]
       IN IF upload # "ok"
            THEN /\ th' = [th EXCEPT ![r] = ArtifactRaises(t, "ClientError", "put failed")]
                 /\ store' = store
                 /\ scratch' = Release(t.run_dir)
            ELSE /\ th' = [th EXCEPT ![r] = AfterWrite(t)]
                 /\ store' = [store EXCEPT ![WriteKey(t)] =
                                StoredObject(MergedInto(store[WriteKey(t)], t.wb))]
                 /\ scratch' = IF th'[r].pc = "loop" THEN Release(t.run_dir) ELSE scratch
  /\ UNCHANGED <<runs, issued, launched, environ, objects, KEEP_OUTPUTS, lock, calls>>

\* write_result_to_s3, line 264: upload the whole workbook
WritePut(r) ==
  /\ th[r].pc \in {"put_total", "put_perarea"}
  /\ \E upload \in StorageOutcomes :
       LET t == th[r]
       IN IF upload # "ok"
            THEN /\ th' = [th EXCEPT ![r] = ArtifactRaises(t, "ClientError", "put failed")]
                 /\ store' = store
                 /\ scratch' = Release(t.run_dir)
            ELSE /\ th' = [th EXCEPT ![r] = AfterWrite(t)]
                 /\ store' = [store EXCEPT ![WriteKey(t)] = StoredObject(t.wb)]
                 /\ scratch' = IF th'[r].pc = "loop" THEN Release(t.run_dir) ELSE scratch
  /\ UNCHANGED <<runs, issued, launched, environ, objects, KEEP_OUTPUTS, lock, calls>>

\* lines 321-329: the loop is over, the summary is returned
BatchReturn(r) ==
  /\ th[r].pc = "loop"
  /\ th[r].i > Len(th[r].idf_objs)
  /\ th' = [th EXCEPT ![r].pc = "returned", ![r].outcome = Return(Summary(th[r]))]
  /\ UNCHANGED <<runs, issued, launched, environ, objects, store, scratch, KEEP_OUTPUTS, lock, calls>>

(***************************************************************************)
(* main(): the batch run as a process of its own                           *)
(***************************************************************************)

\* the process that runs main(), about to call the batch
MainProcess == [NoThread EXCEPT !.pc = "setup", !.caller = "main"]

\* main: print the summary and exit, or exit with the exception
MainExit(r) ==
  /\ th[r].pc = "returned"
  /\ th[r].caller = "main"
  /\ th' = [th EXCEPT ![r].pc = "exited"]
  /\ UNCHANGED <<runs, issued, launched, environ, objects, store, scratch, KEEP_OUTPUTS, lock, calls>>

(***************************************************************************)
(* Specifications                                                          *)
(***************************************************************************)

Next ==
  \/ \E id \in RunIds : create_run(id)
  \/ \E id \in RunIds, config \in Configs : initialise_run(id, config)
  \/ \E id \in RunIds : start_run(id) /\ UNCHANGED calls
  \/ \E id \in RunIds : get_run(id)
  \/ \E id \in RunIds : remove_run(id) /\ UNCHANGED calls
  \/ \E r \in RunIds : CopyEnv(r)
  \/ \E r \in RunIds : UpdateEnv(r)
  \/ \E r \in RunIds : BatchSetup(r)
  \/ \E r \in RunIds : BeginArtifact(r)
  \/ \E r \in RunIds : RunArtifact(r)
  \/ \E r \in RunIds : WriteAbsent(r)
  \/ \E r \in RunIds : WriteLoad(r)
  \/ \E r \in RunIds : WritePut(r)
  \/ \E r \in RunIds : BatchReturn(r)
  \/ \E r \in RunIds : ClearEnv(r)
  \/ \E r \in RunIds : RestoreEnv(r)
  \/ \E r \in RunIds : Finish(r)

\* the adapter and the runs it starts
Spec == Init /\ [][Next]_vars

\* batches started from main() in separate processes on one bucket
InitBatch ==
  /\ runs = [id \in {} |-> NewRun]
  /\ issued = {}
  /\ launched = [r \in RunIds |-> 0]
  /\ environ = StartEnviron
  /\ th = [r \in RunIds |-> MainProcess]
  /\ objects \in BatchBuckets
  /\ store = [k \in MatrixKeys |-> NoObject]
  /\ scratch = {}
  /\ KEEP_OUTPUTS \in BOOLEAN
  /\ lock = Absent
  /\ calls = [r \in RunIds |-> NoCall]

NextBatch ==
  \/ \E r \in RunIds : BatchSetup(r)
  \/ \E r \in RunIds : BeginArtifact(r)
  \/ \E r \in RunIds : RunArtifact(r)
  \/ \E r \in RunIds : WriteAbsent(r)
  \/ \E r \in RunIds : WriteLoad(r)
  \/ \E r \in RunIds : WritePut(r)
  \/ \E r \in RunIds : BatchReturn(r)
  \/ \E r \in RunIds : MainExit(r)

SpecBatch == InitBatch /\ [][NextBatch]_vars

\* bucket contents for the runs started over HTTP: no weather index, and
\* one artifact that can be written
HttpBuckets == { {IdfGoodA, EpwOther}, {IdfGoodA, EpwA} }

\* the run the requests of the clients are about
HttpIds == {"run-1"}

\* the adapter behind its HTTP handlers
InitHttp ==
  /\ runs = [id \in {} |-> NewRun]
  /\ issued = {}
  /\ launched = [r \in RunIds |-> 0]
  /\ environ = StartEnviron
  /\ th = [r \in RunIds |-> NoThread]
  /\ objects \in HttpBuckets
  /\ store = [k \in MatrixKeys |-> NoObject]
  /\ scratch = {}
  /\ KEEP_OUTPUTS \in BOOLEAN
  /\ lock = Absent
  /\ calls = [r \in RunIds |-> NoCall]

NextHttp ==
  \/ \E id \in HttpIds : create_run(id)
  \/ \E id \in HttpIds, config \in Configs : initialise_run(id, config)
  \/ \E id \in HttpIds : run_model(id)
  \/ \E id \in HttpIds : RunModelRespond(id)
  \/ \E id \in HttpIds : get_run(id)
  \/ \E id \in HttpIds : remove(id)
  \/ \E r \in RunIds : CopyEnv(r)
  \/ \E r \in RunIds : UpdateEnv(r)
  \/ \E r \in RunIds : BatchSetup(r)
  \/ \E r \in RunIds : BeginArtifact(r)
  \/ \E r \in RunIds : RunArtifact(r)
  \/ \E r \in RunIds : WriteAbsent(r)
  \/ \E r \in RunIds : WriteLoad(r)
  \/ \E r \in RunIds : WritePut(r)
  \/ \E r \in RunIds : BatchReturn(r)
  \/ \E r \in RunIds : ClearEnv(r)
  \/ \E r \in RunIds : RestoreEnv(r)
  \/ \E r \in RunIds : Finish(r)

SpecHttp == InitHttp /\ [][NextHttp]_vars

(***************************************************************************)
(* Properties                                                              *)
(***************************************************************************)

\* the thread of run r has ended
ThreadEnded(r) == th[r].pc \in {"done", "dead"}

\* the batch of r stopped before the loop: SystemExit for an empty weather
\* index or an empty artifact listing
AbortedBeforeLoop(r) ==
  /\ th[r].outcome.kind = "raise"
  /\ th[r].outcome.cls = "SystemExit"

\* C1: when the batch of a started run aborts before iteration because the
\* weather index is empty or no artifact is listed, the run ends in ERROR
\* with the captured message in its error field.
C1_AbortEndsInError ==
  \A r \in DOMAIN runs :
    (ThreadEnded(r) /\ AbortedBeforeLoop(r))
      => /\ runs[r].state = ERROR
         /\ runs[r].error = Some(th[r].outcome.msg)

\* the edges the state machine of the claim lists
ListedEdges ==
  {<<PENDING, INITIALISED>>, <<INITIALISED, RUNNING>>,
   <<RUNNING, SUCCEEDED>>, <<RUNNING, ERROR>>}

\* the state of every surviving record is unchanged or moves along E
MovesAlong(E) ==
  \A r \in DOMAIN runs \cap DOMAIN runs' :
    runs'[r].state # runs[r].state => <<runs[r].state, runs'[r].state>> \in E

\* C2 as stated: the state of a run changes only along PENDING ->
\* INITIALISED -> RUNNING -> SUCCEEDED | ERROR; no run enters RUNNING
\* without having been INITIALISED.
C2_OnlyListedEdges == [][MovesAlong(ListedEdges)]_vars

\* C2 as amended: the state of a run changes only along the listed edges
\* and PENDING -> RUNNING, the edge start_run takes on a run that was never
\* initialised.
C2_EdgesWithDirectStart ==
  [][MovesAlong(ListedEdges \cup {<<PENDING, RUNNING>>})]_vars

\* a run went through INITIALISED and RUNNING and reached a terminal state
C2_Witness ==
  \E r \in DOMAIN runs :
    /\ runs[r].state \in {SUCCEEDED, ERROR}
    /\ launched[r] = 1

\* C3: terminal states are absorbing: once the state of a run is SUCCEEDED
\* or ERROR, no step changes its state, result or error while the record
\* exists.
C3_TerminalAbsorbing ==
  [][\A r \in DOMAIN runs \cap DOMAIN runs' :
       runs[r].state \in {SUCCEEDED, ERROR}
         => /\ runs'[r].state = runs[r].state
            /\ runs'[r].result = runs[r].result
            /\ runs'[r].error = runs[r].error]_vars

\* a run is in a terminal state with its result or error recorded, the
\* thread that recorded it having ended
C3_Witness ==
  \E r \in DOMAIN runs :
    /\ th[r].pc = "done"
    /\ \/ runs[r].state = SUCCEEDED /\ runs[r].result # Absent
       \/ runs[r].state = ERROR /\ runs[r].error # Absent

\* C4: start_run is idempotent and never restarts: at most one background
\* execution is ever launched for an id, and start_run on a run that is
\* RUNNING, SUCCEEDED or ERROR leaves every record unchanged and starts no
\* thread.
C4_StartOnce ==
  /\ [](\A r \in RunIds : launched[r] <= 1)
  /\ [][\A id \in DOMAIN runs :
          (runs[id].state \in {RUNNING, SUCCEEDED, ERROR} /\ start_run(id))
            => UNCHANGED <<runs, th, launched>>]_vars

\* a run was started once and is RUNNING, its thread at work
C4_Witness ==
  \E r \in DOMAIN runs :
    /\ runs[r].state = RUNNING
    /\ launched[r] = 1
    /\ th[r].pc = "loop"

\* the batch of run r is executing inside _exec_run: after the environment
\* was updated for it and before the finally block restores it
Executing(r) ==
  /\ th[r].caller = "_exec_run"
  /\ th[r].pc \in {"setup", "loop", "staged", "write_total", "put_total",
                   "write_perarea", "put_perarea"}

\* C5: per-run configuration is isolated: executing a run does not mutate
\* the process environment, and the configuration a run observes while it
\* executes is the one it was started with.
C5_EnvironIsolated ==
  /\ environ = StartEnviron
  /\ \A r \in RunIds : Executing(r) => environ = th[r].env

\* the loop of r has begun
LoopBegun(r) == th[r].i >= 1

\* C6: one artifact's failure never aborts the batch: whatever the cause,
\* the loop goes on to the next artifact, the batch returns its summary
\* after the last one, and the run (while its record exists) ends in
\* SUCCEEDED with that summary.
C6_FailureNeverAborts ==
  \A r \in RunIds :
    (th[r].caller = "_exec_run" /\ LoopBegun(r))
      => /\ th[r].outcome.kind # "raise"
         /\ th[r].pc # "dead"
         /\ th[r].outcome.kind = "return" => th[r].i = Len(th[r].idf_objs) + 1
         /\ (th[r].pc = "done" /\ r \in DOMAIN runs)
              => /\ runs[r].state = SUCCEEDED
                 /\ runs[r].result = Some(Summary(th[r]))

\* a run ended in SUCCEEDED although an artifact of its batch failed
C6_Witness ==
  \E r \in DOMAIN runs :
    /\ th[r].pc = "done"
    /\ runs[r].state = SUCCEEDED
    /\ runs[r].result[1].counts.failed >= 1
    /\ runs[r].result[1].counts.total >= 2

\* C7: every listed artifact is tallied exactly once: after each iteration
\* success + failed is the number of artifacts processed so far, and in the
\* returned summary success + failed = total = number of listed artifacts.
C7_TalliedOnce ==
  \A r \in RunIds :
    /\ LoopBegun(r) => th[r].successes + th[r].failures = th[r].i - 1
    /\ th[r].outcome.kind = "return"
         => LET c == th[r].outcome.value.counts
            IN /\ c.success + c.failed = c.total
               /\ c.total = Cardinality(ListIdfObjs(objects, S3_IDF_PREFIX))

\* a batch returned a summary with a success and a failure
C7_Witness ==
  \E r \in RunIds :
    /\ th[r].outcome.kind = "return"
    /\ th[r].outcome.value.counts.success >= 1
    /\ th[r].outcome.value.counts.failed >= 1

\* the stored matrix holds value at the row of year in a column whose header
\* is (scenario, aging)
HoldsAt(obj, scenario, aging, year, value) ==
  /\ obj.exists
  /\ \E col \in 2..MaxColumn(obj.ws) :
       /\ HeaderText(obj.ws, 1, col) = scenario
       /\ HeaderText(obj.ws, 2, col) = aging
       /\ <<3 + (year - YEARS_START), col>> \in DOMAIN obj.ws
       /\ obj.ws[<<3 + (year - YEARS_START), col>>] = value

WritePcs == {"write_total", "put_total", "write_perarea", "put_perarea"}

\* C8: for an artifact that parses, matches a weather artifact, whose engine
\* run exits 0 and yields both metrics, and that is counted as a success,
\* (no other writer being active) each of the two matrices holds the metric
\* at row 3 + (year - YEARS_START) in the column whose header is the
\* scenario in the dotted form of the artifact name and the aging code.
C8_CellsUnderDottedHeader ==
  [][\A r \in RunIds :
       (/\ th[r].pc \in WritePcs
        /\ th[r].total_site # Absent
        /\ th[r].per_area # Absent
        /\ th'[r].pc = "loop"
        /\ th'[r].successes = th[r].successes + 1
        /\ \A o \in RunIds \ {r} : th[o].pc = "setup")
       => LET parsed == parse_idf_filename(LastSegment(th[r].idf_objs[th[r].i]))
          IN /\ HoldsAt(store'[TOTAL_XLSX_KEY], parsed.rcp_dot, parsed.aging,
                        parsed.year, th[r].total_site[1])
             /\ HoldsAt(store'[PERAREA_XLSX_KEY], parsed.rcp_dot, parsed.aging,
                        parsed.year, th[r].per_area[1])]_vars

\* the header pair of a column
HeaderPair(ws, col) == <<HeaderText(ws, 1, col), HeaderText(ws, 2, col)>>

NoDuplicateHeaders(ws) ==
  \A c1, c2 \in 2..MaxColumn(ws) :
    c1 # c2 => HeaderPair(ws, c1) # HeaderPair(ws, c2)

\* header pairs to resolve: those of the artifacts, and one no artifact has
ResolvedPairs ==
  { <<<<"R","C","P","8","5">>, <<"E","1","2">>>>,
    <<<<"R","C","P","4","5">>, <<"F","3">>>>,
    <<<<"R","C","P","2","6">>, <<"T","1">>>> }

\* resolving (climate, aging) on ws returns the column that carries the
\* pair and changes nothing, or appends the pair after the last used
\* column; resolving again returns the same column and changes nothing
ResolvesOnce(ws, climate, aging) ==
  LET cp == col_for_pair(ws, climate, aging)
      carrying == {col \in 2..MaxColumn(ws) : HeaderPair(ws, col) = <<climate, aging>>}
      next == IF MaxColumn(ws) >= 2 THEN MaxColumn(ws) + 1 ELSE 2
  IN /\ carrying # {} => cp.col \in carrying /\ cp.ws = ws
     /\ carrying = {}
          => /\ cp.col = next
             /\ DOMAIN cp.ws = DOMAIN ws \cup {<<1, next>>, <<2, next>>}
             /\ HeaderPair(cp.ws, next) = <<climate, aging>>
             /\ \A c \in DOMAIN ws : cp.ws[c] = ws[c]
     /\ col_for_pair(cp.ws, climate, aging) = [col |-> cp.col, ws |-> cp.ws]

\* C9: in every persisted state of a matrix, whatever the interleaving of
\* the writers, no two columns carry the same (scenario, agingCode) header
\* pair; resolving a pair that has a column returns that column and appends
\* nothing, and a new pair is appended after the last used column.
C9_UniqueHeaderPairs ==
  \A k \in MatrixKeys :
    store[k].exists
      => /\ NoDuplicateHeaders(store[k].ws)
         /\ \A p \in ResolvedPairs : ResolvesOnce(store[k].ws, p[1], p[2])

\* a persisted matrix has two columns, written by both processes
C9_Witness ==
  /\ \E k \in MatrixKeys : store[k].exists /\ MaxColumn(store[k].ws) = 3
  /\ \A r \in RunIds : th[r].successes >= 1

\* C10: writeMetric with an absent value is a no-op: the step loads and
\* persists nothing, creates no matrix object, adds no header and no cell,
\* and raises nothing, whatever the key, scenario, aging code and year.
C10_AbsentValueNoOp ==
  [][\A r \in RunIds :
       (/\ th[r].pc \in {"write_total", "write_perarea"}
        /\ WriteValue(th[r]) = Absent
        /\ th'[r] # th[r])
       => /\ store' = store
          /\ th'[r].wb = <<>>
          /\ th'[r].pc \notin {"put_total", "put_perarea"}
          /\ th'[r].failures = th[r].failures]_vars

\* write_result_to_s3 returned for an absent total value of an artifact
\* whose year is outside the range, and no total matrix exists
C10_Witness ==
  \E r \in RunIds :
    /\ th[r].pc = "write_perarea"
    /\ th[r].total_site = Absent
    /\ th[r].year < YEARS_START
    /\ ~store[TOTAL_XLSX_KEY].exists


\* years on both sides of [YEARS_START, YEARS_END]
YearsOutside ==
  ((YEARS_START - 6)..(YEARS_END + 6)) \ (YEARS_START..YEARS_END)

OutOfRange(year) == year < YEARS_START \/ year > YEARS_END

\* C11: for every year outside [YEARS_START, YEARS_END] and every present
\* value the write fails at the row lookup, whatever the matrix holds, and
\* the step of write_result_to_s3 with such a year ends the artifact as a
\* failure with both persisted matrices unchanged: no cell, no header and
\* no object is persisted.
C11_OutOfRangeYearPersistsNothing ==
  /\ [](\A y \in YearsOutside : ~row_for_year(y).ok)
  /\ [][\A r \in RunIds :
          (/\ th[r].pc \in {"write_total", "write_perarea"}
           /\ WriteValue(th[r]) # Absent
           /\ OutOfRange(th[r].year)
           /\ th'[r] # th[r])
          => /\ store' = store
             /\ th'[r].pc = "loop"
             /\ th'[r].i = th[r].i + 1
             /\ th'[r].failures = th[r].failures + 1
             /\ th'[r].successes = th[r].successes]_vars

\* write_result_to_s3 is called with a present value and a year before
\* YEARS_START on a stored matrix that has no column for the pair
C11_Witness ==
  \E r \in RunIds :
    /\ th[r].pc \in {"write_total", "write_perarea"}
    /\ WriteValue(th[r]) # Absent
    /\ th[r].year < YEARS_START
    /\ store[WriteKey(th[r])].exists
    /\ \A col \in 2..MaxColumn(store[WriteKey(th[r])].ws) :
         HeaderPair(store[WriteKey(th[r])].ws, col) # <<th[r].rcp_nodot, th[r].aging>>


\* the name of artifact key does not parse
Unparsable(key) == ~parse_idf_filename(LastSegment(key)).ok

\* the name parses and the bucket has no weather artifact for its
\* (normalized scenario, year)
NoWeatherFor(key) ==
  LET parsed == parse_idf_filename(LastSegment(key))
  IN /\ parsed.ok
     /\ <<map_rcp_dot_to_nodot(parsed.rcp_dot), parsed.year>>
          \notin DOMAIN index_epws_s3(objects, S3_EPW_PREFIX)

\* C12: an artifact whose name does not parse, or that has no entry in the
\* weather index, is skipped in one step at the head of the loop: it is
\* never staged (so the engine is never invoked for it), no scratch
\* directory is made, neither matrix changes, and failed grows by exactly
\* one.
C12_SkippedBeforeStaging ==
  [][\A r \in RunIds :
       (/\ th[r].pc = "loop"
        /\ th[r].i <= Len(th[r].idf_objs)
        /\ \/ Unparsable(th[r].idf_objs[th[r].i])
           \/ NoWeatherFor(th[r].idf_objs[th[r].i])
        /\ th'[r] # th[r])
       => /\ th'[r].pc = "loop"
          /\ th'[r].i = th[r].i + 1
          /\ th'[r].failures = th[r].failures + 1
          /\ th'[r].successes = th[r].successes
          /\ th'[r].wb = <<>>
          /\ scratch' = scratch
          /\ store' = store]_vars

\* a batch has skipped an artifact of each kind: two failures, nothing
\* staged, nothing stored
C12_Witness ==
  \E r \in RunIds :
    /\ th[r].pc = "loop"
    /\ th[r].failures = 2
    /\ \E j \in 1..(th[r].i - 1) : Unparsable(th[r].idf_objs[j])
    /\ \E j \in 1..(th[r].i - 1) : NoWeatherFor(th[r].idf_objs[j])
    /\ \A k \in MatrixKeys : ~store[k].exists
    /\ scratch = {}


\* the strategy that reads file yields at least one value
Yields(file) ==
  file.kind = "data" /\ (file.t # Absent \/ file.p # Absent)

\* the result of the first strategy, in the order structured, tab-delimited,
\* comma-delimited, that yields a value; (absent, absent, none) when none does
FirstYielding(outdir) ==
  IF Yields(outdir.sql)
    THEN [t |-> outdir.sql.t, p |-> outdir.sql.p, src |-> "sql"]
  ELSE IF Yields(outdir.tab)
    THEN [t |-> outdir.tab.t, p |-> outdir.tab.p, src |-> "tab"]
  ELSE IF Yields(outdir.csv)
    THEN [t |-> outdir.csv.t, p |-> outdir.csv.p, src |-> "csv"]
  ELSE [t |-> Absent, p |-> Absent, src |-> "none"]

\* C13: for every output directory an engine run may leave behind, metric
\* extraction returns the result of the first strategy, in the order
\* structured, tab-delimited, comma-delimited, that yields at least one
\* non-absent value, tagged with its format, and (absent, absent, none)
\* exactly when no strategy yields a value.
C13_FirstYieldingStrategy ==
  \A r \in RunIds :
    th[r].pc = "staged"
      => \A outdir \in OutDirs :
           LET m == fetch_metrics_any(outdir)
               e == FirstYielding(outdir)
           IN /\ ~m.raises
              /\ m.t = e.t /\ m.p = e.p /\ m.src = e.src


\* the program counters between mkdtemp and the finally block of an iteration
InIteration == {"staged", "write_total", "put_total", "write_perarea", "put_perarea"}

\* C14: when retention is not configured, the only scratch directory of a
\* batch that exists is the one of the artifact being processed: each is
\* released on every exit path before the next artifact begins, and none
\* remains when the batch has returned.
C14_ScratchReleased ==
  ~KEEP_OUTPUTS
    => \A d \in scratch :
         /\ th[d[1]].pc \in InIteration
         /\ th[d[1]].run_dir = d
         /\ th[d[1]].i = d[2]

\* without retention a batch returned after one artifact succeeded and
\* one failed after it was staged, and none of its directories remains
C14_Witness ==
  /\ ~KEEP_OUTPUTS
  /\ \E r \in RunIds :
       /\ th[r].outcome.kind = "return"
       /\ Len(th[r].processed) >= 1
       /\ \E j \in 1..Len(th[r].idf_objs) :
            /\ ~Unparsable(th[r].idf_objs[j])
            /\ ~NoWeatherFor(th[r].idf_objs[j])
            /\ \A n \in 1..Len(th[r].processed) : th[r].processed[n] # th[r].idf_objs[j]
       /\ \A d \in scratch : d[1] # r


\* the stored matrix has a cell for the artifact key, in the column of its
\* header pair and the row of its year
HasCellFor(obj, key) ==
  LET parsed == parse_idf_filename(LastSegment(key))
  IN /\ obj.exists
     /\ \E col \in 2..MaxColumn(obj.ws) :
          /\ HeaderPair(obj.ws, col)
               = <<map_rcp_dot_to_nodot(parsed.rcp_dot), parsed.aging>>
          /\ <<3 + (parsed.year - YEARS_START), col>> \in DOMAIN obj.ws

\* C15: no lock or conditional write guards a matrix: an upload replaces
\* the stored matrix by the sheet its writer loaded earlier and modified,
\* whatever was persisted in between, so the cells an earlier persister
\* wrote are discarded by a later one that loaded before it.
C15_UploadOverwritesWholeMatrix ==
  [][\A r \in RunIds :
       (/\ th[r].pc \in {"put_total", "put_perarea"}
        /\ th'[r] # th[r]
        /\ th'[r].failures = th[r].failures)
       => /\ store'[WriteKey(th[r])] = StoredObject(th[r].wb)
          /\ \A k \in MatrixKeys \ {WriteKey(th[r])} : store'[k] = store[k]]_vars

\* both processes have finished and each counted a success; for an
\* artifact one of them counted, all of whose writes completed without
\* error, no persisted matrix has a cell: the other writer's upload
\* discarded it
C15_Witness ==
  /\ \A r \in RunIds :
       /\ th[r].pc = "exited"
       /\ th[r].outcome.kind = "return"
       /\ Len(th[r].processed) >= 1
  /\ \E k \in MatrixKeys : store[k].exists
  /\ \E o \in RunIds :
       \E n \in 1..Len(th[o].processed) :
         \A k \in MatrixKeys : ~HasCellFor(store[k], th[o].processed[n])


\* the response code the control surface documents for a query of id
DocumentedCode(id) ==
  IF id \notin DOMAIN runs THEN 404
  ELSE IF runs[id].state \in {PENDING, INITIALISED, RUNNING} THEN 202
  ELSE IF runs[id].state = ERROR THEN 400
  ELSE 200

\* C16: for the status query and for the results query of every run id the
\* response code is 404 for an unknown id, 202 in PENDING, INITIALISED and
\* RUNNING, 400 with the error message in the body in ERROR, and 200 in
\* SUCCEEDED.
C16_QueryCodes ==
  \A id \in RunIds :
    /\ status(id).code = DocumentedCode(id)
    /\ results(id).code = DocumentedCode(id)
    /\ (id \in DOMAIN runs /\ runs[id].state = ERROR)
         => /\ status(id).body.error = runs[id].error
            /\ results(id).body.error = runs[id].error


C18_ParsedYearInRange ==
  \A r \in RunIds :
    th[r].pc \in InIteration => ~OutOfRange(th[r].year)

\* the number of an aging code: the digits after its letter
AgingNumber(aging) == ToInt(Tail(aging))

\* C19: the name parser accepts an aging code only when its number is
\* between 0 and 28, and returns the code of the name: no artifact is
\* staged with an aging number above 28, and the aging code of a staged
\* artifact is (up to the case of its letter) the one written in its name.
C19_AgingNumberAtMost28 ==
  \A r \in RunIds :
    th[r].pc \in InIteration
      => LET key == th[r].idf_objs[th[r].i]
             len == Len(th[r].aging)
         IN /\ \E n \in 1..(Len(key) - len + 1) :
                 Upper(Slice(key, n, n + len - 1)) = th[r].aging
            /\ AgingNumber(th[r].aging) \in 0..28

\* C20: an artifact counted as a failure leaves both persisted matrices as
\* they were before it was processed: when (no other writer being active)
\* the write to the per-area matrix fails after the total matrix was
\* persisted, the total matrix does not keep the artifact's value.
C20_FailureLeavesNoValue ==
  [][\A r \in RunIds :
       (/\ th[r].pc \in {"write_perarea", "put_perarea"}
        /\ th[r].total_site # Absent
        /\ th'[r].failures = th[r].failures + 1
        /\ \A o \in RunIds \ {r} : th[o].pc = "setup")
       => ~HoldsAt(store'[TOTAL_XLSX_KEY], th[r].rcp_nodot, th[r].aging,
                   th[r].year, th[r].total_site[1])]_vars


\* C21: the start request that launches a run always reports RUNNING: in
\* every interleaving of the background task with the handler, the state
\* the handler of the launching call reads from the returned record is
\* RUNNING and the response code is 200, never 400.
C21_LaunchingCallReportsRunning ==
  [][\A id \in RunIds :
       (/\ calls[id].pc = "read"
        /\ calls[id].launching
        /\ calls'[id].pc = "idle")
       => /\ run_model_response(id).body.state = RUNNING
          /\ run_model_response(id).code = 200]_vars

\* id was handed out by create_run and its record was removed
Removed(id) == id \in issued /\ id \notin DOMAIN runs

\* C22: removing a run is final, also while it is RUNNING: remove_run(id)
\* leaves no record of id, a removed id never reappears in the collection,
\* the steps of its background task (its completion included) change no
\* record, get_run, initialise_run and start_run of a removed id change
\* nothing and start no thread, the queries that go through get_run answer
\* 404 for it, and removing an unknown id changes nothing.
C22_RemovalIsFinal ==
  [][\A id \in RunIds :
       /\ remove_run(id) => id \notin DOMAIN runs'
       /\ Removed(id) => status(id) = NotFound(id) /\ results(id) = NotFound(id)
       /\ Removed(id) => id \notin DOMAIN runs'
       /\ (Removed(id) /\ th'[id] # th[id]) => runs' = runs
       /\ (Removed(id) /\ (get_run(id) \/ start_run(id)
                           \/ \E config \in Configs : initialise_run(id, config)))
            => UNCHANGED adapter_vars
       /\ (id \notin DOMAIN runs /\ remove_run(id)) => UNCHANGED adapter_vars]_vars

\* the background task of a run that was started has completed, with a
\* summary or with a caught error, and the collection has no record of it
C22_Witness ==
  \E r \in RunIds :
    /\ Removed(r)
    /\ launched[r] = 1
    /\ th[r].pc = "done"
    /\ th[r].outcome.kind \in {"return", "raise"}

\* C23: initialise_run(id, config) changes at most the state field of the
\* record of id, for every supplied config: config (which is not stored),
\* thread, result and error of that record and every other record stay as
\* they are, and a record in RUNNING, SUCCEEDED or ERROR is unchanged.
C23_InitialiseChangesStateOnly ==
  [][\A id \in RunIds, config \in Configs :
       initialise_run(id, config)
         => /\ DOMAIN runs' = DOMAIN runs
            /\ \A o \in DOMAIN runs \ {id} : runs'[o] = runs[o]
            /\ id \in DOMAIN runs
                 => /\ runs'[id] = [runs[id] EXCEPT !.state = runs'[id].state]
                    /\ runs'[id].config = NewRun.config
                    /\ runs[id].state \in {RUNNING, SUCCEEDED, ERROR}
                         => runs'[id] = runs[id]
            /\ UNCHANGED <<issued, launched, environ, th, objects, store,
                           scratch, KEEP_OUTPUTS, lock, calls>>]_vars

\* a record was initialised and holds the config create_run gave it, while
\* the other run has been started
C23_Witness ==
  \E id \in DOMAIN runs :
    /\ runs[id].state = INITIALISED
    /\ runs[id].config = NewRun.config
    /\ \E o \in DOMAIN runs \ {id} : runs[o].state \in {RUNNING, SUCCEEDED, ERROR}

====
